---- MODULE Spec2Model ----
(***************************************************************************)
(* Model of Projects/DeepL-MTool-Autotranslator/deepl_translator.py:       *)
(* the DeepLTranslator class (load_config, is_already_translated,          *)
(* translate_batch, translate_json_file) and main().                       *)
(*                                                                         *)
(* A Python str is a sequence of Unicode code points (naturals).  A dict   *)
(* with str keys is a function whose domain is a set of such sequences.    *)
(***************************************************************************)
EXTENDS Integers, Sequences, FiniteSets, TLC

VARIABLES
    config_file,        \* the config.json on disk (environment)
    input_file,         \* the input document on disk (environment)
    output_file,        \* <<>> while absent, <<mapping>> once written
    pc,                 \* position of the single control thread
    phase,              \* position inside one loop iteration / translate_batch
    batch_size,         \* self.batch_size
    api_url,            \* self.api_url
    texts_to_translate, \* list(data.keys()) of translate_json_file
    i,                  \* loop variable of range(0, len, batch_size)
    batch,              \* current slice
    payload,            \* texts_to_translate of translate_batch (payload["text"])
    batch_results,      \* value translate_batch returns
    translated_data,    \* accumulating result mapping
    processed,          \* processed counter
    calls,              \* history: every requests.post issued and what it produced
    sleeps,             \* history: number of time.sleep(self.delay) executed
    log,                \* history: one record per batch translate_batch returned from
    exit_status,        \* <<>> while running, <<code>> once the process ended
    report,             \* what was reported to the user on termination
    response,           \* what the last requests.post produced
    text,               \* argument of a stand-alone is_already_translated call
    verdict             \* its result

vars == <<config_file, input_file, output_file, pc, phase, batch_size, api_url,
          texts_to_translate, i, batch, payload, batch_results, translated_data,
          processed, calls, sleeps, log, exit_status, report, response, text,
          verdict>>

pipeline_vars == <<config_file, input_file, output_file, pc, phase, batch_size,
                   api_url, texts_to_translate, i, batch, payload, batch_results,
                   translated_data, processed, calls, sleeps, log, exit_status,
                   report, response>>

-----------------------------------------------------------------------------
(* Bounds of the model. *)

MaxStrLen == 3      \* longest argument of a stand-alone heuristic call
MaxKeys == 3        \* most keys in an input document
MaxBatch == 3       \* largest configured batch_size

-----------------------------------------------------------------------------
(* Generic helpers for str and dict values. *)

Range(s) == {s[k] : k \in 1..Len(s)}

SeqsUpTo(S, n) == UNION {[1..k -> S] : k \in 0..n}

EmptyDict == [k \in {} |-> <<>>]

\* d[key] = value
SetItem(d, key, value) ==
    [k \in DOMAIN d \cup {key} |-> IF k = key THEN value ELSE d[k]]

\* haystack.__contains__(needle): needle is a contiguous substring
Contains(haystack, needle) ==
    \E k \in 0..(Len(haystack) - Len(needle)) :
        SubSeq(haystack, k + 1, k + Len(needle)) = needle

\* str.endswith
EndsWith(s, suffix) ==
    /\ Len(s) >= Len(suffix)
    /\ SubSeq(s, Len(s) - Len(suffix) + 1, Len(s)) = suffix

-----------------------------------------------------------------------------
(* is_already_translated *)

english_patterns ==
    << <<83, 99, 101, 110, 101>>,                 \* "Scene"
       <<65, 116, 116, 97, 99, 107>>,             \* "Attack"
       <<70, 105, 114, 101>>,                     \* "Fire"
       <<73, 99, 101>>,                           \* "Ice"
       <<84, 104, 117, 110, 100, 101, 114>>,      \* "Thunder"
       <<87, 97, 116, 101, 114>>,                 \* "Water"
       <<87, 105, 110, 100>>,                     \* "Wind"
       <<72, 101, 97, 108>>,                      \* "Heal"
       <<77, 97, 103, 105, 99>>,                  \* "Magic"
       <<66, 97, 116, 116, 108, 101>>,            \* "Battle"
       <<83, 97, 118, 101>>,                      \* "Save"
       <<76, 111, 97, 100>>,                      \* "Load"
       <<77, 101, 110, 117>>,                     \* "Menu"
       <<84, 105, 116, 108, 101>>,                \* "Title"
       <<102, 97, 108, 115, 101>>,                \* "false"
       <<116, 114, 117, 101>>,                    \* "true"
       <<79, 78>>,                                \* "ON"
       <<79, 70, 70>>,                            \* "OFF"
       <<71, 114, 97, 112, 104, 105, 99, 115>>,   \* "Graphics"
       <<68, 97, 116, 97>>,                       \* "Data"
       <<87, 105, 110, 100, 111, 119>> >>         \* "Window"

\* text.encode('ascii') succeeds: every code point is below 128
EncodesAscii(s) == \A k \in 1..Len(s) : s[k] < 128

\* A mutant of Lower: the comparison is left case-sensitive.
LowerKeepsCase(s) == s

\* str.lower() on the code points the model uses: 'A'..'Z' map to 'a'..'z';
\* the remaining ASCII and the CJK code points have no lowercase mapping.
Lower(s) == [k \in 1..Len(s) |-> IF s[k] >= 65 /\ s[k] <= 90 THEN s[k] + 32 ELSE s[k]]

\* the for loop over english_patterns, from pattern number p on
RECURSIVE MatchesPatternFrom(_, _)
MatchesPatternFrom(s, p) ==
    IF p > Len(english_patterns) THEN FALSE
    ELSE IF Contains(Lower(s), Lower(english_patterns[p])) THEN TRUE
    ELSE MatchesPatternFrom(s, p + 1)

is_already_translated(s) ==
    IF EncodesAscii(s) THEN TRUE ELSE MatchesPatternFrom(s, 1)

-----------------------------------------------------------------------------
(* load_config and __init__ *)

PLACEHOLDER_KEY ==    \* "YOUR_DEEPL_API_KEY_HERE"
    <<89, 79, 85, 82, 95, 68, 69, 69, 80, 76, 95, 65, 80, 73, 95, 75, 69, 89,
      95, 72, 69, 82, 69>>

FREE_SUFFIX == <<58, 102, 120>>     \* ":fx"

\* A mutant of load_config: the placeholder credential is accepted.
load_config_accepts_placeholder(cfg) ==
    IF cfg.kind = "missing" THEN "FileNotFoundError"
    ELSE IF cfg.kind = "malformed" THEN "JSONDecodeError"
    ELSE "ok"

\* What the body of load_config's try block raises for the file cfg.
load_config(cfg) ==
    IF cfg.kind = "missing" THEN "FileNotFoundError"
    ELSE IF cfg.kind = "malformed" THEN "JSONDecodeError"
    ELSE IF cfg.deepl_api_key = PLACEHOLDER_KEY THEN "ValueError"
    ELSE "ok"

\* the endpoint __init__ derives from the credential
ApiUrl(api_key) ==
    IF ~EndsWith(api_key, FREE_SUFFIX)
    THEN "https://api.deepl.com/v2/translate"
    ELSE "https://api-free.deepl.com/v2/translate"

-----------------------------------------------------------------------------
(* translate_batch *)

NoResponse == [kind |-> "none", translations |-> <<>>]

\* A mutant of NeedingTranslation: nothing is filtered out.
NeedingTranslationUnfiltered(texts) == texts

\* the first loop: the texts the heuristic does not skip, in order
NeedingTranslation(texts) ==
    SelectSeq(texts, LAMBDA t : ~is_already_translated(t))

\* {text: text for text in texts}
IdentityMapping(texts) == [t \in Range(texts) |-> t]

\* A mutant of WalkFrom: translation_index is never advanced.
RECURSIVE WalkFromStuckIndex(_, _, _, _, _)
WalkFromStuckIndex(texts, translations, idx, translation_index, acc) ==
    IF idx > Len(texts) THEN [raised |-> "none", results |-> acc]
    ELSE IF is_already_translated(texts[idx])
    THEN WalkFromStuckIndex(texts, translations, idx + 1, translation_index,
                            SetItem(acc, texts[idx], texts[idx]))
    ELSE IF translation_index + 1 > Len(translations)
    THEN [raised |-> "IndexError", results |-> acc]
    ELSE WalkFromStuckIndex(texts, translations, idx + 1, translation_index,
                            SetItem(acc, texts[idx], translations[translation_index + 1]))

\* the second loop, from position idx of texts on; translation_index is the
\* 0-based Python index, so translations[translation_index] is element
\* translation_index + 1 of the sequence
RECURSIVE WalkFrom(_, _, _, _, _)
WalkFrom(texts, translations, idx, translation_index, acc) ==
    IF idx > Len(texts) THEN [raised |-> "none", results |-> acc]
    ELSE IF is_already_translated(texts[idx])
    THEN WalkFrom(texts, translations, idx + 1, translation_index,
                  SetItem(acc, texts[idx], texts[idx]))
    ELSE IF translation_index + 1 > Len(translations)
    THEN [raised |-> "IndexError", results |-> acc]
    ELSE WalkFrom(texts, translations, idx + 1, translation_index + 1,
                  SetItem(acc, texts[idx], translations[translation_index + 1]))

\* The body of the try block up to the sleep: what it raises, and the
\* translation_results it built.
TryBlock(texts, resp) ==
    IF resp.kind = "RequestException"
    THEN [raised |-> "RequestException", results |-> EmptyDict]
    ELSE IF resp.kind = "NoTranslationsKey"
    THEN [raised |-> "KeyError", results |-> EmptyDict]
    ELSE WalkFrom(texts, resp.translations, 1, 0, EmptyDict)

\* A mutant of Caught: the handler is missing, so nothing is caught.
CaughtNothing(exc) == FALSE

\* except requests.exceptions.RequestException
Caught(exc) == exc = "RequestException"

\* A mutant of AfterCall: the rate-limiting sleep sits after the try
\* statement, so the fallback path sleeps too.
AfterCallAlwaysSleeps(texts, resp) ==
    LET t == TryBlock(texts, resp) IN
    IF t.raised = "none"
    THEN [raised |-> "none", results |-> t.results, slept |-> TRUE]
    ELSE IF Caught(t.raised)
    THEN [raised |-> "none", results |-> IdentityMapping(texts), slept |-> TRUE]
    ELSE [raised |-> t.raised, results |-> EmptyDict, slept |-> FALSE]

\* The try statement once requests.post has been issued with a non-empty
\* payload: the exception that escapes it ("none" when it returns), the
\* mapping returned, and whether time.sleep ran.
AfterCall(texts, resp) ==
    LET t == TryBlock(texts, resp) IN
    IF t.raised = "none"
    THEN [raised |-> "none", results |-> t.results, slept |-> TRUE]
    ELSE IF Caught(t.raised)
    THEN [raised |-> "none", results |-> IdentityMapping(texts), slept |-> FALSE]
    ELSE [raised |-> t.raised, results |-> EmptyDict, slept |-> FALSE]

\* translate_batch as a whole, given what the remote call would produce
translate_batch(texts, resp) ==
    IF NeedingTranslation(texts) = <<>>
    THEN [raised |-> "none", results |-> IdentityMapping(texts), slept |-> FALSE]
    ELSE AfterCall(texts, resp)

-----------------------------------------------------------------------------
(* translate_json_file helpers *)

\* A mutant of Slice: the slice is one element short.
SliceShort(list, start, size) ==
    SubSeq(list, start + 1, IF start + size - 1 < Len(list) THEN start + size - 1 ELSE Len(list))

\* list[start:start + size], start 0-based
Slice(list, start, size) ==
    SubSeq(list, start + 1, IF start + size < Len(list) THEN start + size ELSE Len(list))

\* A mutant of Update: the batch results replace the accumulated mapping.
UpdateReplaces(d, r) == r

\* d.update(r)
Update(d, r) ==
    [k \in DOMAIN d \cup DOMAIN r |-> IF k \in DOMAIN r THEN r[k] ELSE d[k]]

-----------------------------------------------------------------------------
(* Stand-alone calls of the heuristic on every string up to MaxStrLen over  *)
(* a small alphabet: 'N', 'O', 'n', 'o' and the non-ASCII U+708E.           *)

Alphabet == {78, 79, 110, 111, 28814}

\* the pipeline before main() has run, with no files on disk
PipelineIdle ==
    /\ output_file = <<>>
    /\ pc = "Idle"
    /\ phase = "none"
    /\ batch_size = 0
    /\ api_url = "unset"
    /\ texts_to_translate = <<>>
    /\ i = 0
    /\ batch = <<>>
    /\ payload = <<>>
    /\ batch_results = EmptyDict
    /\ translated_data = EmptyDict
    /\ processed = 0
    /\ calls = <<>>
    /\ sleeps = 0
    /\ log = <<>>
    /\ exit_status = <<>>
    /\ report = "none"
    /\ response = NoResponse

HeurInit ==
    /\ text \in SeqsUpTo(Alphabet, MaxStrLen)
    /\ verdict = "unchecked"
    /\ config_file = [kind |-> "missing", deepl_api_key |-> <<>>, batch_size |-> 1]
    /\ input_file = [exists |-> FALSE, keys |-> <<>>]
    /\ PipelineIdle

CheckText ==
    /\ verdict = "unchecked"
    /\ verdict' = IF is_already_translated(text) THEN "skip" ELSE "translate"
    /\ UNCHANGED <<text, pipeline_vars>>

HeurNext == CheckText

HeurSpec == HeurInit /\ [][HeurNext]_vars

-----------------------------------------------------------------------------
(* The environment of a run of main(): the two files and the remote service *)

KeyPool ==
    { <<28814, 12398, 21091>>,                          \* U+708E U+306E U+5263
      <<30462>>,                                        \* U+76FE
      <<70, 105, 114, 101, 32, 83, 119, 111, 114, 100>>,   \* "Fire Sword"
      <<79, 78, 12398, 21091>> }                        \* "ON" U+306E U+5263

Targets ==
    { <<70, 108, 97, 109, 101, 32, 83, 119, 111, 114, 100>>,   \* "Flame Sword"
      <<83, 104, 105, 101, 108, 100>> }                         \* "Shield"

ApiKeys == { PLACEHOLDER_KEY, <<107, 58, 102, 120>>, <<107>> }   \* "k:fx", "k"

\* json.load yields a dict, so the key list holds no string twice
Documents ==
    {d \in SeqsUpTo(KeyPool, MaxKeys) :
        \A a, b \in 1..Len(d) : a # b => d[a] # d[b]}

ConfigFiles ==
    { [kind |-> "missing", deepl_api_key |-> <<>>, batch_size |-> 1],
      [kind |-> "malformed", deepl_api_key |-> <<>>, batch_size |-> 1] }
    \cup { [kind |-> "json", deepl_api_key |-> k, batch_size |-> b] :
             k \in ApiKeys, b \in 1..MaxBatch }

InputFiles ==
    { [exists |-> FALSE, keys |-> <<>>] }
    \cup { [exists |-> TRUE, keys |-> d] : d \in Documents }

\* What requests.post / raise_for_status / response.json() can produce for n
\* submitted texts: a RequestException (network error, non-2xx status from
\* raise_for_status), a JSON body without "translations", or a JSON body
\* whose "translations" holds up to n entries.
Responses(n) ==
    { [kind |-> "RequestException", translations |-> <<>>],
      [kind |-> "NoTranslationsKey", translations |-> <<>>] }
    \cup { [kind |-> "json", translations |-> t] : t \in SeqsUpTo(Targets, n) }

Init ==
    /\ config_file \in ConfigFiles
    /\ input_file \in InputFiles
    /\ text = <<>>
    /\ verdict = "unchecked"
    /\ PipelineIdle

-----------------------------------------------------------------------------
(* main() and translate_json_file, one action per step *)

\* main(): the banner is printed and DeepLTranslator() is entered
Start ==
    /\ pc = "Idle"
    /\ pc' = "ConfigLoading"
    /\ UNCHANGED <<config_file, input_file, output_file, phase, batch_size,
                   api_url, texts_to_translate, i, batch, payload, batch_results,
                   translated_data, processed, calls, sleeps, log, exit_status,
                   report, response, text, verdict>>

\* __init__ when load_config returns the configuration
ConfigLoaded ==
    /\ pc = "ConfigLoading"
    /\ load_config(config_file) = "ok"
    /\ batch_size' = config_file.batch_size
    /\ api_url' = ApiUrl(config_file.deepl_api_key)
    /\ pc' = "DocumentLoading"
    /\ UNCHANGED <<config_file, input_file, output_file, phase,
                   texts_to_translate, i, batch, payload, batch_results,
                   translated_data, processed, calls, sleeps, log, exit_status,
                   report, response, text, verdict>>

\* __init__ when load_config does not return: FileNotFoundError and
\* JSONDecodeError are caught, printed and followed by sys.exit(1); the
\* ValueError of the placeholder check is caught nowhere, so the interpreter
\* prints its traceback and message and ends the process with status 1
ConfigFails ==
    /\ pc = "ConfigLoading"
    /\ load_config(config_file) # "ok"
    /\ report' = CASE load_config(config_file) = "FileNotFoundError"
                        -> "Error: config.json not found!"
                   [] load_config(config_file) = "JSONDecodeError"
                        -> "Error: Invalid JSON in config.json"
                   [] OTHER
                        -> "ValueError: Please set your DeepL API key in config.json"
    /\ exit_status' = <<1>>
    /\ pc' = "ConfigError"
    /\ UNCHANGED <<config_file, input_file, output_file, phase, batch_size,
                   api_url, texts_to_translate, i, batch, payload, batch_results,
                   translated_data, processed, calls, sleeps, log, response, text,
                   verdict>>

\* translate_json_file up to the loop, input file present
DocumentLoaded ==
    /\ pc = "DocumentLoading"
    /\ input_file.exists
    /\ texts_to_translate' = input_file.keys
    /\ translated_data' = EmptyDict
    /\ processed' = 0
    /\ i' = 0
    /\ phase' = "slice"
    /\ pc' = "BatchProcessing"
    /\ UNCHANGED <<config_file, input_file, output_file, batch_size, api_url,
                   batch, payload, batch_results, calls, sleeps, log, exit_status,
                   report, response, text, verdict>>

\* translate_json_file, input file absent: message and sys.exit(1)
DocumentMissing ==
    /\ pc = "DocumentLoading"
    /\ ~input_file.exists
    /\ report' = "Error: input file not found!"
    /\ exit_status' = <<1>>
    /\ pc' = "InputMissing"
    /\ UNCHANGED <<config_file, input_file, output_file, phase, batch_size,
                   api_url, texts_to_translate, i, batch, payload, batch_results,
                   translated_data, processed, calls, sleeps, log, response, text,
                   verdict>>

\* one loop iteration begins: the slice is taken and translate_batch filters
\* it; with nothing to translate it returns the identity mapping at once
FilterBatch ==
    /\ pc = "BatchProcessing"
    /\ phase = "slice"
    /\ i < Len(texts_to_translate)
    /\ LET b == Slice(texts_to_translate, i, batch_size)
           need == NeedingTranslation(b)
       IN /\ batch' = b
          /\ payload' = need
          /\ response' = NoResponse
          /\ IF need = <<>>
             THEN /\ batch_results' = IdentityMapping(b)
                  /\ log' = Append(log, [index |-> i, batch |-> b,
                                         response |-> NoResponse,
                                         results |-> IdentityMapping(b)])
                  /\ phase' = "merge"
             ELSE /\ phase' = "call"
                  /\ UNCHANGED <<batch_results, log>>
    /\ UNCHANGED <<config_file, input_file, output_file, pc, batch_size, api_url,
                   texts_to_translate, i, translated_data, processed, calls,
                   sleeps, exit_status, report, text, verdict>>

\* requests.post is issued and the try block completes: translation_results
\* is built, the sleep is still to come
RemoteCallOk ==
    /\ pc = "BatchProcessing"
    /\ phase = "call"
    /\ \E resp \in Responses(Len(payload)) :
          LET out == AfterCall(batch, resp) IN
          /\ out.raised = "none"
          /\ out.slept
          /\ response' = resp
          /\ batch_results' = out.results
          /\ calls' = Append(calls, [index |-> i, text |-> payload,
                                     response |-> resp])
    /\ phase' = "sleep"
    /\ UNCHANGED <<config_file, input_file, output_file, pc, batch_size, api_url,
                   texts_to_translate, i, batch, payload, translated_data,
                   processed, sleeps, log, exit_status, report, text, verdict>>

\* requests.post is issued, the try block raises and the except clause
\* returns the identity mapping
RemoteCallCaught ==
    /\ pc = "BatchProcessing"
    /\ phase = "call"
    /\ \E resp \in Responses(Len(payload)) :
          LET out == AfterCall(batch, resp) IN
          /\ out.raised = "none"
          /\ ~out.slept
          /\ response' = resp
          /\ batch_results' = out.results
          /\ log' = Append(log, [index |-> i, batch |-> batch, response |-> resp,
                                 results |-> out.results])
          /\ calls' = Append(calls, [index |-> i, text |-> payload,
                                     response |-> resp])
    /\ phase' = "merge"
    /\ UNCHANGED <<config_file, input_file, output_file, pc, batch_size, api_url,
                   texts_to_translate, i, batch, payload, translated_data,
                   processed, sleeps, exit_status, report, text, verdict>>

\* requests.post is issued and the try block raises what no except clause
\* names: the exception leaves translate_batch, translate_json_file and
\* main(), and the interpreter ends the process with a traceback, status 1
RemoteCallEscapes ==
    /\ pc = "BatchProcessing"
    /\ phase = "call"
    /\ \E resp \in Responses(Len(payload)) :
          LET out == AfterCall(batch, resp) IN
          /\ out.raised # "none"
          /\ response' = resp
          /\ report' = out.raised
          /\ calls' = Append(calls, [index |-> i, text |-> payload,
                                     response |-> resp])
    /\ exit_status' = <<1>>
    /\ phase' = "none"
    /\ pc' = "Crashed"
    /\ UNCHANGED <<config_file, input_file, output_file, batch_size, api_url,
                   texts_to_translate, i, batch, payload, batch_results,
                   translated_data, processed, sleeps, log, text, verdict>>

\* time.sleep(self.delay); return translation_results
Sleep ==
    /\ pc = "BatchProcessing"
    /\ phase = "sleep"
    /\ sleeps' = sleeps + 1
    /\ log' = Append(log, [index |-> i, batch |-> batch, response |-> response,
                           results |-> batch_results])
    /\ phase' = "merge"
    /\ UNCHANGED <<config_file, input_file, output_file, pc, batch_size, api_url,
                   texts_to_translate, i, batch, payload, batch_results,
                   translated_data, processed, calls, exit_status, report,
                   response, text, verdict>>

\* A mutant of MergeBatch: the output file is rewritten after every batch.
MergeBatchWritesOutput ==
    /\ pc = "BatchProcessing"
    /\ phase = "merge"
    /\ translated_data' = Update(translated_data, batch_results)
    /\ output_file' = <<translated_data'>>
    /\ processed' = processed + Len(batch)
    /\ i' = i + batch_size
    /\ phase' = "slice"
    /\ UNCHANGED <<config_file, input_file, pc, batch_size, api_url,
                   texts_to_translate, batch, payload, batch_results, calls,
                   sleeps, log, exit_status, report, response, text, verdict>>

\* the rest of the loop body and the step of range()
MergeBatch ==
    /\ pc = "BatchProcessing"
    /\ phase = "merge"
    /\ translated_data' = Update(translated_data, batch_results)
    /\ processed' = processed + Len(batch)
    /\ i' = i + batch_size
    /\ phase' = "slice"
    /\ UNCHANGED <<config_file, input_file, output_file, pc, batch_size, api_url,
                   texts_to_translate, batch, payload, batch_results, calls,
                   sleeps, log, exit_status, report, response, text, verdict>>

\* range() is exhausted
LoopExit ==
    /\ pc = "BatchProcessing"
    /\ phase = "slice"
    /\ i >= Len(texts_to_translate)
    /\ phase' = "none"
    /\ pc' = "Persisting"
    /\ UNCHANGED <<config_file, input_file, output_file, batch_size, api_url,
                   texts_to_translate, i, batch, payload, batch_results,
                   translated_data, processed, calls, sleeps, log, exit_status,
                   report, response, text, verdict>>

\* json.dump to the output file, the summary, and main() returns
Persist ==
    /\ pc = "Persisting"
    /\ output_file' = <<translated_data>>
    /\ report' = "Translation complete!"
    /\ exit_status' = <<0>>
    /\ pc' = "Done"
    /\ UNCHANGED <<config_file, input_file, phase, batch_size, api_url,
                   texts_to_translate, i, batch, payload, batch_results,
                   translated_data, processed, calls, sleeps, log, response, text,
                   verdict>>

Next ==
    \/ Start
    \/ ConfigLoaded
    \/ ConfigFails
    \/ DocumentLoaded
    \/ DocumentMissing
    \/ FilterBatch
    \/ RemoteCallOk
    \/ RemoteCallCaught
    \/ RemoteCallEscapes
    \/ Sleep
    \/ MergeBatch
    \/ LoopExit
    \/ Persist

Spec == Init /\ [][Next]_vars

-----------------------------------------------------------------------------
(* The loop of translate_json_file as a function of the responses: the      *)
(* mapping a run builds when batch number n receives resps[n].               *)

RECURSIVE RunFrom(_, _, _, _, _, _)
RunFrom(keys, size, resps, start, n, acc) ==
    IF start >= Len(keys) THEN [completed |-> TRUE, data |-> acc]
    ELSE LET r == translate_batch(Slice(keys, start, size), resps[n]) IN
         IF r.raised # "none" THEN [completed |-> FALSE, data |-> acc]
         ELSE RunFrom(keys, size, resps, start + size, n + 1, Update(acc, r.results))

-----------------------------------------------------------------------------
(* Vocabulary of the properties *)

Skipped(t) == is_already_translated(t)

NonSkipped(texts) == SelectSeq(texts, LAMBDA t : ~Skipped(t))

\* the remote call answered with one translation per submitted text
CallSucceeded(resp, submitted) ==
    /\ resp.kind = "json"
    /\ Len(resp.translations) >= Len(submitted)

\* the remote call failed: transport error, or a malformed body
CallFailed(resp, submitted) ==
    \/ resp.kind \in {"RequestException", "NoTranslationsKey"}
    \/ resp.kind = "json" /\ Len(resp.translations) < Len(submitted)

\* least n with n * size >= count
CeilDiv(count, size) ==
    CHOOSE n \in 0..count : n * size >= count /\ (n = 0 \/ (n - 1) * size < count)

ProcessedAll == pc \in {"Persisting", "Done"}

-----------------------------------------------------------------------------
(* C1 *)

\* C1: when translate_json_file reaches the persist step the key set of the
\* result mapping is exactly the key set of the input document, each key
\* once, whatever mix of skipped, translated and failed batches occurred; the
\* file written holds the same key set.
C1_KeySetPreserved ==
    /\ ProcessedAll =>
          /\ DOMAIN translated_data = Range(input_file.keys)
          /\ Cardinality(DOMAIN translated_data) = Len(input_file.keys)
    /\ pc = "Done" => DOMAIN output_file[1] = Range(input_file.keys)

C1_Witness ==
    /\ pc = "Persisting"
    /\ \E a, b, c \in 1..Len(log) :
          /\ log[a].response.kind = "none"
          /\ log[b].response.kind = "json"
          /\ log[c].response.kind = "RequestException"

-----------------------------------------------------------------------------
(* C2 *)

\* C2: whenever the remote call of a batch has failed (network error,
\* non-2xx status, or a malformed body such as a missing translations array
\* or fewer translations than submitted strings), no exception has left
\* translate_batch and the batch's result is the identity mapping.
C2_FailureFallsBackToIdentity ==
    CallFailed(response, payload) =>
        /\ pc # "Crashed"
        /\ batch_results = IdentityMapping(batch)

-----------------------------------------------------------------------------
(* C3 *)

\* C3: a network error in the call of one batch does not end the run and
\* degrades that batch to the identity mapping; every batch is still handed
\* to translate_batch in order before the persist step, the run can always
\* take its next step, and at the persist step the entries of every other
\* batch are those of the run in which that call had succeeded instead.
C3_NetworkErrorIsolated ==
    /\ pc = "Crashed" => response.kind # "RequestException"
    /\ pc = "BatchProcessing" => ENABLED Next
    /\ \A j \in 1..Len(log) :
          /\ log[j].index = (j - 1) * batch_size
          /\ log[j].response.kind = "RequestException"
                => log[j].results = IdentityMapping(log[j].batch)
    /\ ProcessedAll =>
          /\ Len(log) * batch_size >= Len(texts_to_translate)
          /\ \A j \in 1..Len(log) :
                log[j].response.kind = "RequestException" =>
                   \A t \in [1..Len(NonSkipped(log[j].batch)) -> Targets] :
                      LET resps == [n \in 1..Len(log) |->
                                      IF n = j
                                      THEN [kind |-> "json", translations |-> t]
                                      ELSE log[n].response]
                          alt == RunFrom(texts_to_translate, batch_size, resps,
                                         0, 1, EmptyDict)
                      IN /\ alt.completed
                         /\ \A k \in DOMAIN translated_data \ Range(log[j].batch) :
                               /\ k \in DOMAIN alt.data
                               /\ alt.data[k] = translated_data[k]
                         /\ \A k \in Range(log[j].batch) :
                               translated_data[k] = k

C3_Witness ==
    /\ pc = "Persisting"
    /\ \E a, b \in 1..Len(log) :
          /\ a < b
          /\ log[a].response.kind = "RequestException"
          /\ log[b].response.kind = "json"
          /\ \E k \in Range(log[b].batch) : translated_data[k] # k

-----------------------------------------------------------------------------
(* C4 *)

\* C4: no batch has more than one remote call; a call is issued only for a
\* batch with a string that needs translation and carries exactly the
\* non-skipped strings of that batch, in order; a batch whose strings are all
\* skipped has no call and still yields the identity mapping.
C4_RemoteCalls ==
    /\ \A a, b \in 1..Len(calls) : calls[a].index = calls[b].index => a = b
    /\ \A a \in 1..Len(calls) :
          LET b == Slice(texts_to_translate, calls[a].index, batch_size) IN
          /\ calls[a].text # <<>>
          /\ calls[a].text = NonSkipped(b)
    /\ \A j \in 1..Len(log) :
          (\A t \in Range(log[j].batch) : Skipped(t)) =>
              /\ \A a \in 1..Len(calls) : calls[a].index # log[j].index
              /\ log[j].results = IdentityMapping(log[j].batch)

C4_Witness ==
    /\ pc = "Persisting"
    /\ \E j \in 1..Len(log) :
          /\ \A t \in Range(log[j].batch) : Skipped(t)
          /\ \A a \in 1..Len(calls) : calls[a].index # log[j].index
    /\ \E a \in 1..Len(calls) :
          Len(calls[a].text) < Len(Slice(texts_to_translate, calls[a].index, batch_size))

-----------------------------------------------------------------------------
(* C5 *)

\* C5: the delay runs once for each remote call that succeeded, after the
\* call and before translate_batch returns, and never for a batch without a
\* call or with a failed call: the number of delays, plus the one pending
\* while a successful call has not returned yet, is the number of successful
\* remote calls, and a batch is returned from after a delay exactly when its
\* call succeeded.
C5_DelayPerSuccessfulCall ==
    /\ sleeps + (IF phase = "sleep" THEN 1 ELSE 0)
          = Cardinality({a \in 1..Len(calls) :
                            CallSucceeded(calls[a].response, calls[a].text)})
    /\ sleeps = Cardinality({j \in 1..Len(log) :
                                CallSucceeded(log[j].response, NonSkipped(log[j].batch))})
    /\ phase = "sleep" =>
          /\ calls # <<>>
          /\ calls[Len(calls)].index = i
          /\ \A j \in 1..Len(log) : log[j].index # i

C5_Witness ==
    /\ pc = "Done"
    /\ sleeps = 1
    /\ \E a, b, c \in 1..Len(log) :
          /\ log[a].response.kind = "none"
          /\ log[b].response.kind = "json"
          /\ log[c].response.kind = "RequestException"

-----------------------------------------------------------------------------
(* C6 *)

\* C6: after a successful call whose response has one translation per
\* submitted string, the batch result maps every skipped string to itself
\* and the k-th non-skipped string of the batch to the k-th translation.
C6_SuccessMapping ==
    (/\ phase \in {"sleep", "merge"}
     /\ response.kind = "json"
     /\ Len(response.translations) = Len(payload)) =>
        /\ DOMAIN batch_results = Range(batch)
        /\ \A idx \in 1..Len(batch) :
              batch_results[batch[idx]] =
                 IF Skipped(batch[idx])
                 THEN batch[idx]
                 ELSE response.translations[
                         Cardinality({m \in 1..idx : ~Skipped(batch[m])})]

C6_Witness ==
    /\ phase = "merge"
    /\ response.kind = "json"
    /\ Len(batch) = 3
    /\ ~Skipped(batch[1])
    /\ Skipped(batch[2])
    /\ ~Skipped(batch[3])
    /\ Len(response.translations) = 2
    /\ response.translations[1] # response.translations[2]

-----------------------------------------------------------------------------
(* C7 *)

\* the two code points are the same ASCII letter up to case, or equal
SameIgnoringCase(a, b) ==
    \/ a = b
    \/ a \in 65..90 /\ b = a + 32
    \/ b \in 65..90 /\ a = b + 32

\* some allow-list token occurs in s as a case-insensitive substring
HasTokenIgnoringCase(s) ==
    \E p \in 1..Len(english_patterns) :
       \E off \in 0..(Len(s) - Len(english_patterns[p])) :
          \A m \in 1..Len(english_patterns[p]) :
             SameIgnoringCase(s[off + m], english_patterns[p][m])

-----------------------------------------------------------------------------
(* C8 *)

\* C8: the batches handed to translate_batch are the consecutive slices of
\* the key list, each of batch_size keys except a shorter non-empty last
\* one; ceil(N / batch_size) of them have been processed at the persist
\* step; and the keys of a batch about to be merged are not yet in the
\* result mapping.
C8_Batching ==
    /\ \A j \in 1..Len(log) :
          LET first == (j - 1) * batch_size
              size == IF j * batch_size <= Len(texts_to_translate)
                      THEN batch_size
                      ELSE Len(texts_to_translate) - first
          IN /\ log[j].index = first
             /\ size >= 1
             /\ log[j].batch = [m \in 1..size |-> texts_to_translate[first + m]]
    /\ ProcessedAll =>
          /\ Len(log) = CeilDiv(Len(texts_to_translate), batch_size)
          /\ processed = Len(texts_to_translate)
    /\ (pc = "BatchProcessing" /\ phase = "merge") =>
          Range(batch) \cap DOMAIN translated_data = {}

C8_Witness ==
    /\ pc = "Persisting"
    /\ Len(texts_to_translate) = 3
    /\ batch_size = 2
    /\ Len(log) = 2
    /\ Len(log[2].batch) = 1

-----------------------------------------------------------------------------
(* C9 *)

PipelineEdges ==
    { <<"Idle", "ConfigLoading">>,
      <<"ConfigLoading", "DocumentLoading">>,
      <<"ConfigLoading", "ConfigError">>,
      <<"DocumentLoading", "BatchProcessing">>,
      <<"DocumentLoading", "InputMissing">>,
      <<"BatchProcessing", "Persisting">>,
      <<"BatchProcessing", "Crashed">>,
      <<"Persisting", "Done">> }

C9_FailureIsClean ==
    /\ pc \in {"ConfigError", "InputMissing"} =>
          /\ output_file = <<>>
          /\ calls = <<>>
          /\ exit_status = <<1>>
          /\ ~ENABLED Next
    /\ pc = "Crashed" => output_file = <<>>
    /\ output_file # <<>> => pc = "Done"

C9_Step ==
    /\ pc' # pc => <<pc, pc'>> \in PipelineEdges
    /\ output_file' # output_file =>
          /\ pc = "Persisting"
          /\ i >= Len(texts_to_translate)
          /\ output_file' = <<translated_data>>

\* C9: the control thread moves only along Idle, ConfigLoading,
\* DocumentLoading, BatchProcessing, Persisting, Done (or out of it into a
\* terminal state); the output file is written only by the step that leaves
\* Persisting, after every batch; and a run that ended in ConfigError or
\* InputMissing has stopped with non-zero status, no output file and no
\* remote call.
C9_StateMachine == [](C9_FailureIsClean) /\ [][C9_Step]_vars

C9_Witness ==
    /\ pc = "InputMissing"
    /\ exit_status = <<1>>
    /\ output_file = <<>>

-----------------------------------------------------------------------------
(* C10 *)

ConfigIsBad ==
    \/ config_file.kind = "missing"
    \/ config_file.kind = "malformed"
    \/ config_file.deepl_api_key = PLACEHOLDER_KEY

\* C10: a missing configuration file, a configuration that is not valid
\* JSON and a placeholder credential each end the run in ConfigError during
\* configuration loading, reported and with non-zero status, before the
\* input document is read; the placeholder case ends like the other two.
C10_ConfigFailuresAreFatal ==
    /\ ConfigIsBad => pc \in {"Idle", "ConfigLoading", "ConfigError"}
    /\ pc = "ConfigError" =>
          /\ ConfigIsBad
          /\ exit_status = <<1>>
          /\ report \notin {"none", "Translation complete!"}
          /\ texts_to_translate = <<>>
          /\ batch_size = 0
          /\ ~ENABLED Next

C10_Witness ==
    /\ pc = "ConfigError"
    /\ config_file.kind = "json"
    /\ config_file.deepl_api_key = PLACEHOLDER_KEY
    /\ exit_status = <<1>>

====
